---------------------------- MODULE Spec2Model ----------------------------
(***************************************************************************)
(* A model of src/project.py, the LinkedIn analytics dashboard script.     *)
(*                                                                         *)
(* The script is re-executed from its first line on every user input.      *)
(* The only state that survives a run is st.session_state; everything      *)
(* else (df, the widget values, the totals, the top posts) is a local of   *)
(* the run.  A run is modelled as the sequence of its statement groups:    *)
(*   ReadAndNormalize   lines 22-26                                        *)
(*   DateInput          lines 33-47                                        *)
(*   KeywordInput       lines 49-52                                        *)
(*   Metrics            lines 55-69                                        *)
(*   TopPosts           lines 71-72                                        *)
(*   DeriveAndDisplay   lines 74-176                                       *)
(* An uncaught Python exception ends the run (pc = "crashed").             *)
(*                                                                         *)
(* Text is a sequence of one-character strings.  A time stamp is a number  *)
(* of half days (an even number is a midnight); a calendar date, as        *)
(* returned by st.date_input, is a number of days.  Numeric cells hold     *)
(* naturals; Python's float arithmetic is modelled by exact arithmetic     *)
(* and percentages are kept in hundredths after round(..., 2).             *)
(*                                                                         *)
(* Not modelled, because no property below reads them: the header          *)
(* whitespace trimmed at line 24 (headers are taken as already trimmed),   *)
(* the Platform and Person lookups of lines 29-30 (the sheets hold neither *)
(* column), the hashtags of lines 93-96 and the chart data of lines        *)
(* 99-100.  st.date_input is outside the script: the model lets it hand    *)
(* back any tuple of up to two dates, since the script itself tests only   *)
(* the tuple's length (line 43).                                           *)
(*                                                                         *)
(* shown is the browser's side of st.dataframe (line 171): the number of   *)
(* rows of the performance table on screen.  The table of the last run     *)
(* stays on screen while the next run executes and is replaced when that   *)
(* run renders its own, or removed when it ends in an exception.           *)
(***************************************************************************)
EXTENDS Integers, Sequences, FiniteSets, TLC

VARIABLES session_state, pc, df, date_range, keyword, warned, summary,
          top_post, top_engaging_post, error, shown

vars == <<session_state, pc, df, date_range, keyword, warned, summary,
          top_post, top_engaging_post, error, shown>>

(***************************************************************************)
(* Bounds of the model.                                                    *)
(***************************************************************************)
MaxRows == 2
MaxDay == 1

(***************************************************************************)
(* Text                                                                    *)
(***************************************************************************)
UpperChars == <<"A","B","C","D","E","F","G","H","I","J","K","L","M",
                "N","O","P","Q","R","S","T","U","V","W","X","Y","Z">>
LowerChars == <<"a","b","c","d","e","f","g","h","i","j","k","l","m",
                "n","o","p","q","r","s","t","u","v","w","x","y","z">>

\* The lower-case letter of each upper-case letter
LowerOf ==
    [c \in {UpperChars[i] : i \in 1..Len(UpperChars)} |->
        LowerChars[CHOOSE i \in 1..Len(UpperChars) : UpperChars[i] = c]]

LowerChar(c) == IF c \in DOMAIN LowerOf THEN LowerOf[c] ELSE c

\* str.lower()
Lower(s) == [i \in 1..Len(s) |-> LowerChar(s[i])]

\* Python's `needle in hay` for str: scan the start positions left to right.
RECURSIVE InFrom(_, _, _)
InFrom(needle, hay, i) ==
    IF i + Len(needle) - 1 > Len(hay) THEN FALSE
    ELSE IF SubSeq(hay, i, i + Len(needle) - 1) = needle THEN TRUE
    ELSE InFrom(needle, hay, i + 1)

In(needle, hay) == InFrom(needle, hay, 1)

(***************************************************************************)
(* Cells.  A numeric cell read from the sheet is a number or a piece of    *)
(* text; pd.to_numeric(errors='coerce') turns the text into NaN.  A Date   *)
(* cell is a time stamp or text; pd.to_datetime(errors='coerce') turns     *)
(* the text into NaT.  A Post cell is a string, a number (rendered by      *)
(* str() as its digits) or blank (NaN).                                    *)
(***************************************************************************)
Num(n) == [kind |-> "num", v |-> n]
TextCell == [kind |-> "text", v |-> 0]
NaN == [kind |-> "nan", v |-> 0]
DateCell(t) == [kind |-> "date", v |-> t]
NaT == [kind |-> "nat", v |-> 0]
Str(s) == [kind |-> "str", s |-> s]
IntPost(digits) == [kind |-> "int", s |-> digits]
BlankPost == [kind |-> "nan", s |-> <<>>]

\* pd.to_numeric(col, errors='coerce'), cell by cell
to_numeric(cell) == IF cell.kind = "num" THEN cell ELSE NaN

\* pd.to_datetime(col, errors='coerce'), cell by cell
to_datetime(cell) == IF cell.kind = "date" THEN cell ELSE NaT

\* pd.to_datetime(d) of a datetime.date: midnight of that day
DateToTimestamp(d) == 2 * d

\* .astype(str) / str(post): NaN is rendered as the text "nan"
astype_str(cell) == IF cell.kind = "nan" THEN <<"n","a","n">> ELSE cell.s

Required == {"Date", "Post", "Likes", "Comments", "Shares", "Clicks", "Impressions"}


(***************************************************************************)
(* The uploaded sheets the model draws from.  A sheet holds at most        *)
(* MaxRows rows of RowPool and lacks at most one required column.          *)
(***************************************************************************)
GreatTutorial == <<"G","r","e","a","t"," ","t","u","t","o","r","i","a","l"," ","o","n"," ","X">>
CheckSale == <<"C","h","e","c","k"," ","o","u","r"," ","s","a","l","e","!">>
FreeTutorial == <<"F","r","e","e"," ","T","u","t","o","r","i","a","l">>
CheckProduct == <<"C","h","e","c","k"," ","o","u","t"," ","o","u","r"," ","p","r","o","d","u","c","t">>

SheetRow(date, post, likes, comments, shares, clicks, impressions) ==
    [c \in Required |->
        CASE c = "Date" -> date
          [] c = "Post" -> post
          [] c = "Likes" -> likes
          [] c = "Comments" -> comments
          [] c = "Shares" -> shares
          [] c = "Clicks" -> clicks
          [] c = "Impressions" -> impressions]

RowPool ==
    { SheetRow(DateCell(0), Str(GreatTutorial), Num(10), Num(2), Num(1), Num(5), Num(100)),
      SheetRow(DateCell(2), Str(CheckSale), Num(50), Num(0), Num(0), Num(20), Num(200)),
      SheetRow(DateCell(3), Str(FreeTutorial), Num(50), TextCell, Num(3), Num(1), Num(0)),
      SheetRow(TextCell, BlankPost, TextCell, Num(1), TextCell, TextCell, TextCell),
      SheetRow(DateCell(4), Str(CheckProduct), Num(0), Num(0), Num(0), Num(0), Num(0)),
      SheetRow(DateCell(1), IntPost(<<"2","0","2","4">>), Num(5), Num(4), Num(4), Num(2), Num(7)) }

Dropped == {{}} \cup {{c} : c \in Required}

SheetOf(rows, dropped) ==
    [columns |-> Required \ dropped,
     data |-> [i \in 1..Len(rows) |-> [c \in Required \ dropped |-> rows[i][c]]]]

Uploads ==
    { SheetOf(rows, d) : rows \in UNION {[1..n -> RowPool] : n \in 0..MaxRows},
                         d \in Dropped }

\* What st.date_input can hand back in range mode: (), (d,) or (d1, d2).
Days == 0..MaxDay
DateSelections == {<<>>} \cup {<<d>> : d \in Days} \cup (Days \X Days)

\* What st.text_input can hand back.
Keywords ==
    { <<>>,
      <<"T","U","T","O","R","I","A","L">>,
      <<"n","a","n">>,
      <<"s",".","l","e">>,
      <<"(">> }

(***************************************************************************)
(* Tables.  A DataFrame is its set of column labels and its rows in order; *)
(* a row keeps the index label read_excel gave it (its position in the     *)
(* sheet), which boolean-mask selection preserves.                         *)
(***************************************************************************)
NoTable == [columns |-> {}, rows |-> <<>>]

\* pd.read_excel(uploaded_file): a fresh frame with a RangeIndex
read_excel(file) ==
    [columns |-> file.columns,
     rows |-> [i \in 1..Len(file.data) |-> [idx |-> i - 1, cells |-> file.data[i]]]]

\* df[c] = series, a value for each row in order
Assign(t, c, series) ==
    [columns |-> t.columns \cup {c},
     rows |-> [i \in 1..Len(t.rows) |->
                 [t.rows[i] EXCEPT !.cells = (c :> series[i]) @@ t.rows[i].cells]]]

\* df[mask], mask a boolean for each row in order
Select(t, mask) ==
    LET Kept(i) == mask[i]
        positions == SelectSeq([i \in 1..Len(t.rows) |-> i], Kept)
    IN  [t EXCEPT !.rows = [k \in 1..Len(positions) |-> t.rows[positions[k]]]]

\* A slip in line 45: | written for &
DateMaskEitherBound(row, start, end) ==
    /\ row.cells["Date"].kind = "date"
    /\ \/ row.cells["Date"].v >= DateToTimestamp(start)
       \/ row.cells["Date"].v <= DateToTimestamp(end)

\* (df['Date'] >= start) & (df['Date'] <= end), row by row; NaT compares False
DateMask(row, start, end) ==
    /\ row.cells["Date"].kind = "date"
    /\ row.cells["Date"].v >= DateToTimestamp(start)
    /\ row.cells["Date"].v <= DateToTimestamp(end)

\* A slip in line 45: the selection used as row positions, df.iloc[start:end + 1]
DateFilterByPosition(t, start, end) ==
    [t EXCEPT !.rows =
        SubSeq(t.rows,
               IF start + 1 > Len(t.rows) THEN Len(t.rows) + 1 ELSE start + 1,
               IF end + 1 > Len(t.rows) THEN Len(t.rows) ELSE end + 1)]

\* line 45
DateFilter(t, start, end) ==
    Select(t, [i \in 1..Len(t.rows) |-> DateMask(t.rows[i], start, end)])

\* re.compile(keyword) fails: of the regular-expression syntax the model
\* knows literal characters, "." and parentheses, which must pair up.
RegexError(pat) ==
    Cardinality({i \in 1..Len(pat) : pat[i] = "("})
        # Cardinality({i \in 1..Len(pat) : pat[i] = ")"})

\* re.search(pat, text, re.IGNORECASE) for a pattern of literals and "."
RegexSearch(pat, text) ==
    LET p == Lower(pat)
        s == Lower(text)
    IN  \E i \in 1..(Len(s) - Len(p) + 1) :
            \A j \in 1..Len(p) : p[j] = "." \/ p[j] = s[i + j - 1]

\* df['Post'].astype(str).str.contains(keyword, case=False, na=False), one row
KeywordMask(row, kw) == RegexSearch(kw, astype_str(row.cells["Post"]))

KeywordFilter(t, kw) ==
    Select(t, [i \in 1..Len(t.rows) |-> KeywordMask(t.rows[i], kw)])

(***************************************************************************)
(* Metrics (lines 55-72)                                                   *)
(***************************************************************************)
\* NaN-propagating addition of two numeric cells
Add(a, b) == IF a.kind = "num" /\ b.kind = "num" THEN Num(a.v + b.v) ELSE NaN

\* df['Likes'] + df['Comments'] + df['Shares']
TotalEngagement(t) ==
    [i \in 1..Len(t.rows) |->
        Add(Add(t.rows[i].cells["Likes"], t.rows[i].cells["Comments"]),
            t.rows[i].cells["Shares"])]

\* Series.sum(): NaN is skipped, the empty sum is 0
RECURSIVE SumFrom(_, _, _)
SumFrom(rows, c, i) ==
    IF i > Len(rows) THEN 0
    ELSE (IF rows[i].cells[c].kind = "num" THEN rows[i].cells[c].v ELSE 0)
         + SumFrom(rows, c, i + 1)

Sum(t, c) == SumFrom(t.rows, c, 1)

\* The number of non-NaN cells of a column
Count(t, c) == Cardinality({i \in 1..Len(t.rows) : t.rows[i].cells[c].kind = "num"})

\* round(100 * n / d, 2) in hundredths, for n >= 0 and d > 0: the nearest
\* hundredth, a tie going to the even one
RoundedPercent(n, d) ==
    LET q == (10000 * n) \div d
        r == (10000 * n) % d
    IN  IF 2 * r < d THEN q
        ELSE IF 2 * r > d THEN q + 1
        ELSE IF q % 2 = 0 THEN q ELSE q + 1

\* line 67
EngagementRate(total_likes, total_comments, total_shares, total_impressions) ==
    IF total_impressions > 0
    THEN RoundedPercent(total_likes + total_comments + total_shares, total_impressions)
    ELSE 0

\* A slip in line 68: the factor 100 left out
CtrAsFraction(total_clicks, total_impressions) ==
    IF total_impressions > 0
    THEN RoundedPercent(total_clicks, 100 * total_impressions)
    ELSE 0

\* line 68
Ctr(total_clicks, total_impressions) ==
    IF total_impressions > 0
    THEN RoundedPercent(total_clicks, total_impressions)
    ELSE 0

\* line 69: round(mean, 2) in hundredths; the mean of no value is NaN
AvgEngagement(t) ==
    IF Count(t, "Total Engagement") = 0 THEN NaN
    ELSE Num(RoundedPercent(Sum(t, "Total Engagement"), 100 * Count(t, "Total Engagement")))

\* A slip in lines 71-72: the last of the rows that hold the largest value
idxmax_last(t, c) ==
    LET valued == {i \in 1..Len(t.rows) : t.rows[i].cells[c].kind = "num"}
        best == CHOOSE i \in valued :
                    \A j \in valued :
                        \/ t.rows[j].cells[c].v < t.rows[i].cells[c].v
                        \/ (t.rows[j].cells[c].v = t.rows[i].cells[c].v /\ i >= j)
    IN  t.rows[best].idx

\* Series.idxmax() of a column with a non-NaN value: the index label of the
\* first row, in frame order, that holds the largest non-NaN value
idxmax(t, c) ==
    LET valued == {i \in 1..Len(t.rows) : t.rows[i].cells[c].kind = "num"}
        best == CHOOSE i \in valued :
                    \A j \in valued :
                        \/ t.rows[j].cells[c].v < t.rows[i].cells[c].v
                        \/ (t.rows[j].cells[c].v = t.rows[i].cells[c].v /\ i <= j)
    IN  t.rows[best].idx

\* df.loc[label] for a label of the (unique) index
loc(t, label) == t.rows[CHOOSE i \in 1..Len(t.rows) : t.rows[i].idx = label]

(***************************************************************************)
(* Derived columns (lines 74-86)                                           *)
(***************************************************************************)
ShortLen == 25

\* .astype(str).str.slice(0, 25) + "...", one cell
ShortPost(post) ==
    LET text == astype_str(post)
    IN  SubSeq(text, 1, IF Len(text) < ShortLen THEN Len(text) ELSE ShortLen)
            \o <<".", ".", ".">>

educational_keywords ==
    << <<"l","e","a","r","n">>,
       <<"e","d","u","c","a","t","i","o","n","a","l">>,
       <<"k","n","o","w","l","e","d","g","e">>,
       <<"t","i","p","s">>,
       <<"t","u","t","o","r","i","a","l">>,
       <<"t","r","a","i","n","i","n","g">>,
       <<"c","o","u","r","s","e">> >>

\* A slip in line 80: .lower() left out
classify_case_sensitive(post) ==
    LET text == astype_str(post)
    IN  IF \E k \in 1..Len(educational_keywords) : In(educational_keywords[k], text)
        THEN "Educational"
        ELSE "Other"

\* lines 79-84
classify_post_type(post) ==
    LET text == Lower(astype_str(post))
    IN  IF \E k \in 1..Len(educational_keywords) : In(educational_keywords[k], text)
        THEN "Educational"
        ELSE "Other"

\* lines 74 and 86
Derive(t) ==
    Assign(Assign(t, "Short Post",
                  [i \in 1..Len(t.rows) |-> ShortPost(t.rows[i].cells["Post"])]),
           "Post Type",
           [i \in 1..Len(t.rows) |-> classify_post_type(t.rows[i].cells["Post"])])

(***************************************************************************)
(* The run                                                                 *)
(***************************************************************************)
NoSummary == [computed |-> FALSE]
NoError == [type |-> "none", line |-> 0]
Raised(type, line) == [type |-> type, line |-> line]

Init ==
    /\ session_state = <<>>
    /\ pc = "idle"
    /\ df = NoTable
    /\ date_range = <<>>
    /\ keyword = <<>>
    /\ warned = FALSE
    /\ summary = NoSummary
    /\ top_post = <<>>
    /\ top_engaging_post = <<>>
    /\ error = NoError
    /\ shown = <<>>

\* The locals of a run that is about to start
FreshRun ==
    /\ pc' = "read"
    /\ df' = NoTable
    /\ date_range' = <<>>
    /\ keyword' = <<>>
    /\ warned' = FALSE
    /\ summary' = NoSummary
    /\ top_post' = <<>>
    /\ top_engaging_post' = <<>>
    /\ error' = NoError
    /\ shown' = shown

\* An uncaught exception ends the run
Crash(type, line) ==
    /\ pc' = "crashed"
    /\ error' = Raised(type, line)
    /\ shown' = <<>>

\* lines 14-17: the uploader hands back a file, which the session keeps
Upload ==
    /\ pc = "idle"
    /\ "uploaded" \notin DOMAIN session_state
    /\ \E file \in Uploads : session_state' = ("uploaded" :> file)
    /\ FreshRun

\* A slip in lines 18-23: a later run goes on from the table the last run
\* displayed instead of reading the file again
RerunKeepingTable ==
    /\ pc \in {"displayed", "crashed"}
    /\ "uploaded" \in DOMAIN session_state
    /\ session_state' = session_state
    /\ IF pc = "displayed"
       THEN /\ pc' = "date_input"
            /\ df' = df
            /\ date_range' = <<>>
            /\ keyword' = <<>>
            /\ warned' = FALSE
            /\ summary' = NoSummary
            /\ top_post' = <<>>
            /\ top_engaging_post' = <<>>
            /\ error' = NoError
            /\ shown' = shown
       ELSE FreshRun

\* lines 18-19: a later run takes the file from the session
Rerun ==
    /\ pc \in {"displayed", "crashed"}
    /\ "uploaded" \in DOMAIN session_state
    /\ session_state' = session_state
    /\ FreshRun

\* line 25
NormalizeImpressions(t) ==
    Assign(t, "Impressions",
           [i \in 1..Len(t.rows) |-> to_numeric(t.rows[i].cells["Impressions"])])

\* line 26
NormalizeDate(t) ==
    Assign(t, "Date", [i \in 1..Len(t.rows) |-> to_datetime(t.rows[i].cells["Date"])])

\* lines 22-26
ReadAndNormalize ==
    /\ pc = "read"
    /\ LET t == read_excel(session_state["uploaded"])
       IN  IF "Impressions" \notin t.columns
           THEN df' = t /\ Crash("KeyError", 25)
           ELSE IF "Date" \notin t.columns
           THEN df' = NormalizeImpressions(t) /\ Crash("KeyError", 26)
           ELSE /\ df' = NormalizeDate(NormalizeImpressions(t))
                /\ pc' = "date_input"
                /\ error' = error
                /\ shown' = shown
    /\ UNCHANGED <<session_state, date_range, keyword, warned, summary,
                   top_post, top_engaging_post>>

\* lines 33-47
DateInput ==
    /\ pc = "date_input"
    /\ \E selection \in DateSelections :
        /\ date_range' = selection
        /\ IF Len(selection) = 2
           THEN /\ df' = DateFilter(df, selection[1], selection[2])
                /\ warned' = warned
           ELSE /\ df' = df
                /\ warned' = TRUE
    /\ pc' = "keyword_input"
    /\ UNCHANGED <<session_state, keyword, summary, top_post, top_engaging_post, error,
                   shown>>

\* lines 49-52
KeywordInput ==
    /\ pc = "keyword_input"
    /\ \E typed \in Keywords :
        /\ keyword' = typed
        /\ IF typed = <<>>
           THEN df' = df /\ pc' = "metrics" /\ UNCHANGED <<error, shown>>
           ELSE IF "Post" \notin df.columns
           THEN df' = df /\ Crash("KeyError", 52)
           ELSE IF RegexError(typed)
           THEN df' = df /\ Crash("re.error", 52)
           ELSE /\ df' = KeywordFilter(df, typed)
                /\ pc' = "metrics"
                /\ UNCHANGED <<error, shown>>
    /\ UNCHANGED <<session_state, date_range, warned, summary, top_post, top_engaging_post>>

\* lines 55-58: the columns coerced in turn, up to the first one missing
MetricColumns == <<"Likes", "Comments", "Shares", "Clicks">>

RECURSIVE CoerceFrom(_, _)
CoerceFrom(t, k) ==
    IF k > Len(MetricColumns) \/ MetricColumns[k] \notin t.columns THEN t
    ELSE CoerceFrom(
             Assign(t, MetricColumns[k],
                    [i \in 1..Len(t.rows) |-> to_numeric(t.rows[i].cells[MetricColumns[k]])]),
             k + 1)

\* lines 61-69
Summarize(t) ==
    [computed |-> TRUE,
     total_likes |-> Sum(t, "Likes"),
     total_comments |-> Sum(t, "Comments"),
     total_shares |-> Sum(t, "Shares"),
     total_clicks |-> Sum(t, "Clicks"),
     total_impressions |-> Sum(t, "Impressions"),
     engagement_rate |-> EngagementRate(Sum(t, "Likes"), Sum(t, "Comments"),
                                        Sum(t, "Shares"), Sum(t, "Impressions")),
     ctr |-> Ctr(Sum(t, "Clicks"), Sum(t, "Impressions")),
     avg_engagement |-> AvgEngagement(t)]

\* lines 55-69
Metrics ==
    /\ pc = "metrics"
    /\ LET coerced == CoerceFrom(df, 1)
           missing == {k \in 1..Len(MetricColumns) : MetricColumns[k] \notin df.columns}
       IN  IF missing # {}
           THEN /\ df' = coerced
                /\ summary' = summary
                /\ Crash("KeyError", 54 + CHOOSE k \in missing : \A m \in missing : k <= m)
           ELSE LET t == Assign(coerced, "Total Engagement", TotalEngagement(coerced))
                IN  /\ df' = t
                    /\ summary' = Summarize(t)
                    /\ pc' = "top_posts"
                    /\ UNCHANGED <<error, shown>>
    /\ UNCHANGED <<session_state, date_range, keyword, warned, top_post, top_engaging_post>>

\* lines 71-72.  idxmax of an empty column raises ValueError; of a column of
\* NaN only it raises ValueError or hands back NaN, which df.loc rejects with
\* KeyError, depending on the pandas release.
TopPosts ==
    /\ pc = "top_posts"
    /\ IF Len(df.rows) = 0
       THEN Crash("ValueError", 71) /\ UNCHANGED <<top_post, top_engaging_post>>
       ELSE IF Count(df, "Likes") = 0
       THEN /\ \E type \in {"ValueError", "KeyError"} : Crash(type, 71)
            /\ UNCHANGED <<top_post, top_engaging_post>>
       ELSE IF Count(df, "Total Engagement") = 0
       THEN /\ top_post' = <<loc(df, idxmax(df, "Likes"))>>
            /\ \E type \in {"ValueError", "KeyError"} : Crash(type, 72)
            /\ UNCHANGED top_engaging_post
       ELSE /\ top_post' = <<loc(df, idxmax(df, "Likes"))>>
            /\ top_engaging_post' = <<loc(df, idxmax(df, "Total Engagement"))>>
            /\ pc' = "derive"
            /\ UNCHANGED <<error, shown>>
    /\ UNCHANGED <<session_state, df, date_range, keyword, warned, summary>>

\* lines 74-176: the derived columns, then the widgets, which only read
DeriveAndDisplay ==
    /\ pc = "derive"
    /\ IF "Post" \notin df.columns
       THEN df' = df /\ Crash("KeyError", 74)
       ELSE /\ df' = Derive(df)
            /\ pc' = "displayed"
            /\ error' = error
            /\ shown' = <<Len(df.rows)>>
    /\ UNCHANGED <<session_state, date_range, keyword, warned, summary,
                   top_post, top_engaging_post>>

Next ==
    \/ Upload
    \/ Rerun
    \/ ReadAndNormalize
    \/ DateInput
    \/ KeywordInput
    \/ Metrics
    \/ TopPosts
    \/ DeriveAndDisplay

Spec == Init /\ [][Next]_vars

(***************************************************************************)
(* Properties                                                              *)
(***************************************************************************)
HasUpload == "uploaded" \in DOMAIN session_state
File == session_state["uploaded"]

\* The table a run holds after lines 23-26
Loaded == NormalizeDate(NormalizeImpressions(read_excel(File)))

\* s is t with some rows left out: nothing added, nothing altered, order kept
IsSubSequence(s, t) ==
    \E f \in [1..Len(s) -> 1..Len(t)] :
        /\ \A i \in 1..Len(s) : s[i] = t[f[i]]
        /\ \A i, j \in 1..Len(s) : i < j => f[i] < f[j]

\* The run has gone past the keyword filter (whether or not it failed later)
PastFilters ==
    \/ pc \in {"metrics", "top_posts", "derive", "displayed"}
    \/ (pc = "crashed" /\ error.line > 52)

\* The run has gone past lines 71-72, or failed there
PastTopPosts ==
    \/ pc \in {"derive", "displayed"}
    \/ (pc = "crashed" /\ error.line \in {71, 72})

\* C1: after the date filter of a (start, end) selection, the table is a
\* sub-sequence of the loaded table, every row kept has a Date within
\* [start, end], ends included, and no row kept has a null Date.
C1_DateFilterSound ==
    (pc = "keyword_input" /\ Len(date_range) = 2) =>
        /\ LET loaded == Loaded
           IN  df.columns = loaded.columns /\ IsSubSequence(df.rows, loaded.rows)
        /\ \A i \in 1..Len(df.rows) :
            /\ df.rows[i].cells["Date"].kind = "date"
            /\ DateToTimestamp(date_range[1]) <= df.rows[i].cells["Date"].v
            /\ df.rows[i].cells["Date"].v <= DateToTimestamp(date_range[2])

\* C1 witness: a date filter that kept a row, dropped a row, and met a null Date
C1_Witness ==
    /\ pc = "keyword_input"
    /\ Len(date_range) = 2
    /\ 0 < Len(df.rows)
    /\ Len(df.rows) < Len(Loaded.rows)
    /\ \E i \in 1..Len(Loaded.rows) : Loaded.rows[i].cells["Date"].kind = "nat"
    /\ \E i \in 1..Len(df.rows) :
           df.rows[i].cells["Date"].v = DateToTimestamp(date_range[2])

\* C2: when no row is left after the filters (of a sheet with every required
\* column), the run does not end in an exception.
C2_EmptyTableNoCrash ==
    (HasUpload /\ PastFilters /\ Required \subseteq df.columns /\ Len(df.rows) = 0)
        => pc # "crashed"

\* C3: a selection (start, end) with start > end leaves the loaded table
\* unfiltered and shows the warning.
C3_ReversedRangeFallsBack ==
    (pc = "keyword_input" /\ Len(date_range) = 2 /\ date_range[1] > date_range[2])
        => (warned /\ df = Loaded)

\* The table the keyword filter of this run was given
BeforeKeyword ==
    IF Len(date_range) = 2 THEN DateFilter(Loaded, date_range[1], date_range[2])
    ELSE Loaded

\* The Post is not null and holds the keyword as a literal substring, case ignored
LiteralMatch(row) ==
    /\ row.cells["Post"].kind # "nan"
    /\ \E i \in 1..Len(row.cells["Post"].s) :
        /\ i + Len(keyword) - 1 <= Len(row.cells["Post"].s)
        /\ \A j \in 1..Len(keyword) :
               LowerChar(row.cells["Post"].s[i + j - 1]) = LowerChar(keyword[j])

\* C4: the keyword filter keeps exactly the rows whose Post holds the keyword
\* as a literal substring, case ignored; never a row with a null Post; and
\* with no keyword the table is unchanged.
C4_KeywordFilterLiteral ==
    pc = "metrics" =>
        df.rows = IF keyword = <<>> THEN BeforeKeyword.rows
                  ELSE Select(BeforeKeyword,
                             [i \in 1..Len(BeforeKeyword.rows) |->
                                 LiteralMatch(BeforeKeyword.rows[i])]).rows

\* C5: a sheet that lacks a required column is rejected before any stage
\* runs on it: the run neither executes a stage nor ends in an exception.
C5_MissingColumnRejected ==
    (HasUpload /\ ~(Required \subseteq File.columns))
        => pc \notin {"crashed", "date_input", "keyword_input", "metrics",
                      "top_posts", "derive", "displayed"}

\* The sum of the non-null cells of a column, a null cell counting 0
NonNullTotal(c) ==
    LET partial[n \in 0..Len(df.rows)] ==
            IF n = 0 THEN 0
            ELSE partial[n - 1]
                 + (IF df.rows[n].cells[c].kind = "num" THEN df.rows[n].cells[c].v ELSE 0)
    IN  partial[Len(df.rows)]

TotalEngaged == NonNullTotal("Likes") + NonNullTotal("Comments") + NonNullTotal("Shares")

\* C6 as claimed: with the rates held in hundredths, engagement_rate and ctr
\* are 0 when the impressions sum to 0, and are exactly the quotients
\* 100 * (likes + comments + shares) / impressions and 100 * clicks /
\* impressions when they sum to more.
C6_RatesExact ==
    summary.computed =>
        /\ NonNullTotal("Impressions") = 0 =>
               (summary.engagement_rate = 0 /\ summary.ctr = 0)
        /\ NonNullTotal("Impressions") > 0 =>
               /\ summary.engagement_rate * NonNullTotal("Impressions")
                      = 100 * 100 * TotalEngaged
               /\ summary.ctr * NonNullTotal("Impressions")
                      = 100 * 100 * NonNullTotal("Clicks")

\* n hundredths is a nearest hundredth of 100 * num / den
NearestHundredth(n, num, den) ==
    LET diff == n * den - 100 * 100 * num
    IN  2 * (IF diff < 0 THEN -diff ELSE diff) <= den

\* C6 amended: engagement_rate and ctr are 0 when the impressions sum to 0,
\* and are the quotients rounded to two decimal places when they sum to more.
C6_RatesRounded ==
    summary.computed =>
        /\ NonNullTotal("Impressions") = 0 =>
               (summary.engagement_rate = 0 /\ summary.ctr = 0)
        /\ NonNullTotal("Impressions") > 0 =>
               /\ NearestHundredth(summary.engagement_rate, TotalEngaged,
                                   NonNullTotal("Impressions"))
               /\ NearestHundredth(summary.ctr, NonNullTotal("Clicks"),
                                   NonNullTotal("Impressions"))

\* C6 witness: rates computed from a positive impressions total that does not
\* divide evenly, over a table with a null Impressions cell
C6_Witness ==
    /\ summary.computed
    /\ NonNullTotal("Impressions") > 0
    /\ summary.ctr > 0
    /\ summary.ctr * NonNullTotal("Impressions") # 100 * 100 * NonNullTotal("Clicks")
    /\ \E i \in 1..Len(df.rows) : df.rows[i].cells["Impressions"].kind = "nan"

HasValue(c) == \E i \in 1..Len(df.rows) : df.rows[i].cells[c].kind = "num"

\* top is the first row of df, in table order, that holds the largest
\* non-null value of column c
IsFirstMaximum(top, c) ==
    /\ Len(top) = 1
    /\ \E i \in 1..Len(df.rows) :
        /\ df.rows[i].idx = top[1].idx
        /\ df.rows[i].cells[c] = top[1].cells[c]
        /\ df.rows[i].cells[c].kind = "num"
        /\ \A j \in 1..Len(df.rows) :
               df.rows[j].cells[c].kind = "num" =>
                   /\ df.rows[j].cells[c].v <= df.rows[i].cells[c].v
                   /\ (df.rows[j].cells[c].v = df.rows[i].cells[c].v => i <= j)

\* Total Engagement is Likes + Comments + Shares, null if an addend is null
TotalEngagementDefined ==
    \A i \in 1..Len(df.rows) :
        LET cells == df.rows[i].cells
        IN  IF \A c \in {"Likes", "Comments", "Shares"} : cells[c].kind = "num"
            THEN cells["Total Engagement"]
                     = Num(cells["Likes"].v + cells["Comments"].v + cells["Shares"].v)
            ELSE cells["Total Engagement"].kind = "nan"

FilteredFromUpload ==
    IF keyword = <<>> THEN BeforeKeyword ELSE KeywordFilter(BeforeKeyword, keyword)

MeasuredFromUpload ==
    Assign(CoerceFrom(FilteredFromUpload, 1), "Total Engagement",
           TotalEngagement(CoerceFrom(FilteredFromUpload, 1)))

DerivedFromUpload == Derive(MeasuredFromUpload)

RunDependsOnlyOnUpload ==
    pc = "displayed" =>
        /\ df = DerivedFromUpload
        /\ summary = Summarize(MeasuredFromUpload)
        /\ shown = <<Len(FilteredFromUpload.rows)>>

\* C8: once a file is uploaded the session keeps that file unchanged, and the
\* table and the summary of every run that displays are those computed from
\* that file, the run's date selection and the run's keyword alone.
C8_RunsDependOnlyOnUpload ==
    /\ [][HasUpload => session_state' = session_state]_vars
    /\ []RunDependsOnlyOnUpload

\* C8 witness: a run displays more rows than the run before it, whose table
\* is still on screen, had kept
C8_Witness ==
    /\ pc = "derive"
    /\ shown # <<>>
    /\ shown[1] < Len(df.rows)

\* The two filters of this run as functions of a table
ByDate(t) == DateFilter(t, date_range[1], date_range[2])
ByKeyword(t) == IF keyword = <<>> THEN t ELSE KeywordFilter(t, keyword)

\* C9: for a (start, end) selection and a keyword, the date filter and the
\* keyword filter give the same table in either order, and either filter
\* applied again to its own output changes nothing.  (A keyword that is no
\* regular expression raises in re.compile before any row is looked at, in
\* either order: such a run never reaches the metrics.)
C9_FiltersCommuteIdempotent ==
    (pc = "metrics" /\ Len(date_range) = 2 /\ "Post" \in df.columns) =>
        LET loaded == Loaded
            dated == ByDate(loaded)
            searched == ByKeyword(loaded)
        IN  /\ ByKeyword(dated) = ByDate(searched)
            /\ ByDate(dated) = dated
            /\ ByKeyword(searched) = searched
            /\ df = ByKeyword(dated)

\* C9 witness: each filter alone drops a row and a row is left
C9_Witness ==
    /\ pc = "metrics"
    /\ Len(date_range) = 2
    /\ keyword # <<>>
    /\ Len(ByDate(Loaded).rows) < Len(Loaded.rows)
    /\ Len(ByKeyword(Loaded).rows) < Len(Loaded.rows)
    /\ Len(df.rows) > 0

\* The lower-cased text of a Post holds one of the educational keywords
HoldsEducationalKeyword(post) ==
    LET text == [i \in 1..Len(astype_str(post)) |-> LowerChar(astype_str(post)[i])]
    IN  \E k \in 1..Len(educational_keywords) :
            \E i \in 1..Len(text) :
                /\ i + Len(educational_keywords[k]) - 1 <= Len(text)
                /\ \A j \in 1..Len(educational_keywords[k]) :
                       text[i + j - 1] = educational_keywords[k][j]

\* C10: every row of the displayed table has Post Type Educational or Other,
\* and Educational exactly when its lower-cased Post text holds one of the
\* seven keywords; "Free Tutorial" is Educational, "Check out our product"
\* is Other.
C10_PostTypeClassification ==
    pc = "displayed" =>
        \A i \in 1..Len(df.rows) :
            LET cells == df.rows[i].cells
            IN  /\ cells["Post Type"] \in {"Educational", "Other"}
                /\ cells["Post Type"] = "Educational"
                       <=> HoldsEducationalKeyword(cells["Post"])
                /\ cells["Post"] = Str(FreeTutorial) => cells["Post Type"] = "Educational"
                /\ cells["Post"] = Str(CheckProduct) => cells["Post Type"] = "Other"

\* C10 witness: a displayed table with "Free Tutorial" classified Educational
\* beside a post that is no string classified Other
C10_Witness ==
    /\ pc = "displayed"
    /\ \E i \in 1..Len(df.rows) :
        /\ df.rows[i].cells["Post"] = Str(FreeTutorial)
        /\ df.rows[i].cells["Post Type"] = "Educational"
    /\ \E i \in 1..Len(df.rows) :
        /\ df.rows[i].cells["Post"].kind # "str"
        /\ df.rows[i].cells["Post Type"] = "Other"

=============================================================================
